---- MODULE Spec2Model ----
(***************************************************************************)
(* Citation graph builder of deepresearch                                  *)
(* (src/src/deepresearch/pipelines/citation_graph_builder.py) together     *)
(* with the identifier parsing of the source connectors it is wired to.    *)
(*                                                                         *)
(* Strings are sequences of tokens: a token stands for a run of characters *)
(* that the code never looks inside (a connector name, ":", "/", a host    *)
(* name, a digit, a letter).  startswith, "in", split and replace are      *)
(* computed on these sequences.                                            *)
(***************************************************************************)
EXTENDS Integers, Sequences, FiniteSets, TLC

(***************************************************************************)
(* Bounds of the model.                                                    *)
(***************************************************************************)
MaxSeeds == 2
MaxDepth == 2
MaxCitations == 2

(***************************************************************************)
(* String primitives (Python str methods on token sequences).              *)
(***************************************************************************)
Digits == {"1", "2", "7"}

Range(s) == {s[i] : i \in 1..Len(s)}

StartsWith(s, p) == Len(s) >= Len(p) /\ SubSeq(s, 1, Len(p)) = p

Contains(s, p) == \E i \in 1..(Len(s) - Len(p) + 1) : SubSeq(s, i, i + Len(p) - 1) = p

\* the element of a one-element set: {F(x) : x \in {e}} applies F to the value of e
The(S) == CHOOSE x \in S : TRUE

\* index of the first occurrence of token t in s, 0 when there is none
Find(s, t) == LET at == {i \in 1..Len(s) : s[i] = t}
              IN IF at = {} THEN 0 ELSE CHOOSE i \in at : \A j \in at : i <= j

\* s.split(t), a sequence of strings
RECURSIVE Split(_, _)
Split(s, t) == LET at == Find(s, t)
               IN IF at = 0 THEN <<s>>
                  ELSE <<SubSeq(s, 1, at - 1)>> \o Split(SubSeq(s, at + 1, Len(s)), t)

\* s.replace(p, ""), every non-overlapping occurrence from the left
RECURSIVE Remove(_, _)
Remove(s, p) == IF s = <<>> THEN <<>>
                ELSE IF StartsWith(s, p) THEN Remove(SubSeq(s, Len(p) + 1, Len(s)), p)
                ELSE <<s[1]>> \o Remove(Tail(s), p)

\* part.isdigit()
IsDigit(s) == Len(s) > 0 /\ \A i \in 1..Len(s) : s[i] \in Digits

\* ids that are not str at all (a JSON number in paper_ids): no str method works on them
IsStr(s) == ~(Len(s) > 0 /\ s[1] = "<int>")

\* ':' in paper_id, and paper_id.split(':', 1)
HasColon(s) == \E i \in 1..Len(s) : s[i] = ":"
BeforeColon(s) == SubSeq(s, 1, Find(s, ":") - 1)
AfterColon(s) == SubSeq(s, Find(s, ":") + 1, Len(s))

\* DOIs are case-insensitive upstream: the bibliographic database answers with its own spelling
LowerTok(t) == IF t = "C" THEN "c" ELSE t
Lower(s) == [i \in 1..Len(s) |-> LowerTok(s[i])]

(***************************************************************************)
(* parse_paper_id of the connectors.                                       *)
(***************************************************************************)
NotImplementedError == <<"<NotImplementedError>">>

\* first part after a part equal to marker, in s.split("/"); <<"<none>">> when the loop finds none
AfterPart(parts, marker) ==
    LET at == {i \in 1..(Len(parts) - 1) : parts[i] = marker}
    IN IF at = {} THEN <<"<none>">> ELSE parts[(CHOOSE i \in at : \A j \in at : i <= j) + 1]

ArXivParsePaperId(external_id) ==
    IF StartsWith(external_id, <<"arxiv", ":">>) THEN external_id
    ELSE LET after == AfterPart(Split(external_id, "/"), <<"abs">>)
         IN IF Contains(external_id, <<"arxiv.org">>) /\ after # <<"<none>">>
            THEN <<"arxiv", ":">> \o after
            ELSE <<"arxiv", ":">> \o external_id

FirstDigitPart(parts) ==
    LET at == {i \in 1..Len(parts) : IsDigit(parts[i])}
    IN IF at = {} THEN <<"<none>">> ELSE parts[CHOOSE i \in at : \A j \in at : i <= j]

PubMedParsePaperId(external_id) ==
    IF StartsWith(external_id, <<"pubmed", ":">>) THEN external_id
    ELSE LET part == FirstDigitPart(Split(external_id, "/"))
         IN IF Contains(external_id, <<"pubmed.ncbi.nlm.nih.gov">>) /\ part # <<"<none>">>
            THEN <<"pubmed", ":">> \o part
            ELSE IF IsDigit(external_id) THEN <<"pubmed", ":">> \o external_id
            ELSE external_id

SemanticScholarParsePaperId(external_id) ==
    IF StartsWith(external_id, <<"semanticscholar", ":">>) THEN external_id
    ELSE LET after == AfterPart(Split(external_id, "/"), <<"paper">>)
         IN IF Contains(external_id, <<"semanticscholar.org", "/", "paper">>) /\ after # <<"<none>">>
            THEN <<"semanticscholar", ":">> \o after
            ELSE IF StartsWith(external_id, <<"10.">>) THEN <<"doi", ":">> \o external_id
            ELSE <<"semanticscholar", ":">> \o external_id

\* re.search(r'cluster=([^&]+)', s).group(1); <<"<none>">> when there is no match
RECURSIVE UpToAmp(_)
UpToAmp(s) == IF s = <<>> \/ s[1] = "&" THEN <<>> ELSE <<s[1]>> \o UpToAmp(Tail(s))

ClusterMatch(s) ==
    LET at == {i \in 1..(Len(s) - 1) : s[i] = "cluster=" /\ s[i + 1] # "&"}
    IN IF at = {} THEN <<"<none>">>
       ELSE UpToAmp(SubSeq(s, (CHOOSE i \in at : \A j \in at : i <= j) + 1, Len(s)))

GoogleScholarParsePaperId(external_id) ==
    IF StartsWith(external_id, <<"googlescholar", ":">>) THEN external_id
    ELSE LET cluster == ClusterMatch(external_id)
         IN IF Contains(external_id, <<"scholar.google.com">>) /\ cluster # <<"<none>">>
            THEN <<"googlescholar", ":">> \o cluster
            ELSE <<"googlescholar", ":">> \o external_id

DriveParsePaperId(external_id) == NotImplementedError

\* conn.parse_paper_id(paper_id) for the connector registered as conn_source
parse_paper_id(conn_source, external_id) ==
    CASE conn_source = "arxiv" -> ArXivParsePaperId(external_id)
      [] conn_source = "pubmed" -> PubMedParsePaperId(external_id)
      [] conn_source = "semanticscholar" -> SemanticScholarParsePaperId(external_id)
      [] conn_source = "googlescholar" -> GoogleScholarParsePaperId(external_id)
      [] OTHER -> DriveParsePaperId(external_id)

(***************************************************************************)
(* Records.  A Paper keeps the fields the builder reads; kind tells a      *)
(* Paper from None and from a raised exception.                            *)
(***************************************************************************)
None == <<"<None>">>

\* models.Paper; references is raw_metadata["references"] when has_references
Paper(paper_id, title, doi, source, has_references, references) ==
    [kind |-> "paper", exc |-> "", paper_id |-> paper_id, title |-> title, doi |-> doi,
     source |-> source, has_references |-> has_references, references |-> references]

NoPaper == [kind |-> "none", exc |-> "", paper_id |-> <<>>, title |-> "", doi |-> None,
            source |-> "", has_references |-> FALSE, references |-> <<>>]

\* an exception of class exc instead of a value
Raised(exc) == [kind |-> "raise", exc |-> exc, paper_id |-> <<>>, title |-> "", doi |-> None,
                source |-> "", has_references |-> FALSE, references |-> <<>>]

\* except Exception: every class but the BaseException-only ones
ExceptException(exc) == exc \in {"TypeError", "ValueError", "NotImplementedError"}

\* truthiness of an Optional[str]
Truthy(s) == s # None /\ s # <<>>

\* models.CitationLink
CitationLink(source_id, target_id) == [source_id |-> source_id, target_id |-> target_id]

(***************************************************************************)
(* The upstream sources.  The connector databases are fixed tables; the    *)
(* bibliographic database (Crossref) is the record `upstream`, chosen when *)
(* the builder is constructed and fixed from then on.                      *)
(***************************************************************************)
VARIABLES connectors, upstream

DoiA == <<"10.", "a">>
DoiB == <<"10.", "b">>
DoiC == <<"10.", "c">>
DoiD == <<"10.", "d">>
\* the spelling of DoiC used in reference lists deposited in upper case
DoiCUpper == <<"10.", "C">>
\* a reference list entry without a "DOI" key, a references entry without "paperId"
NoKey == <<"<nokey>">>

Dois == {DoiA, DoiB, DoiC, DoiD}

\* the raw work the bibliographic database holds for a canonical DOI
RawWork(doi) ==
    [found |-> TRUE, DOI |-> doi,
     title |-> IF doi = DoiD THEN "<empty-list>" ELSE "T",
     reference |-> upstream.reference[doi]]

\* self._works.doi(doi): the work, or not found / transport error
NoWork == [found |-> FALSE, DOI |-> <<>>, title |-> "", reference |-> <<>>]

WorksDoi(doi) ==
    LET canonical == Lower(doi)
    IN IF canonical \in Dois /\ canonical \notin upstream.down THEN RawWork(canonical) ELSE NoWork

\* the slice without its bound
TakeAll(s, n) == s

\* the slice one entry short
TakeShort(s, n) == SubSeq(s, 1, IF Len(s) < n - 1 THEN Len(s) ELSE n - 1)

\* s[:n]
Take(s, n) == SubSeq(s, 1, IF Len(s) < n THEN Len(s) ELSE n)

\* list(self._works.filter(references=doi).limit(max_papers)) raises
WorksFilterRaises(doi) == Lower(doi) \in upstream.down

\* list(self._works.filter(references=doi).limit(max_papers))
WorksFilterReferences(doi, max_papers) ==
    LET canonical == Lower(doi)
    IN IF canonical \in Dois
       THEN LET citing == upstream.citing[canonical]
            IN Take([i \in 1..Len(citing) |-> RawWork(citing[i])], max_papers)
       ELSE <<>>

\* CitationGraphBuilder._crossref_to_paper
_crossref_to_paper(crossref_data) ==
    IF ~Truthy(crossref_data.DOI) THEN NoPaper
    ELSE IF crossref_data.title = "<empty-list>" THEN NoPaper
    ELSE Paper(<<"doi", ":">> \o crossref_data.DOI, crossref_data.title, crossref_data.DOI,
               "crossref", FALSE, <<>>)

\* the native id a connector's get_paper_metadata extracts from paper_id
NativeId(paper_id) == IF HasColon(paper_id) THEN AfterColon(paper_id) ELSE paper_id

\* ArXivConnector.get_paper_metadata
ArXivGetPaperMetadata(paper_id) ==
    IF NativeId(paper_id) \in {<<"7">>, <<"7", "v1">>}
    THEN Paper(<<"arxiv", ":", "7", "v1">>, "arxiv-7", None, "arxiv", FALSE, <<>>)
    ELSE Raised("ValueError")

\* PubMedConnector.get_paper_metadata
PubMedGetPaperMetadata(paper_id) ==
    IF NativeId(paper_id) = <<"7">>
    THEN Paper(<<"pubmed", ":", "7">>, "pubmed-7", DoiA, "pubmed", FALSE, <<>>)
    ELSE Raised("ValueError")

\* SemanticScholarConnector.get_paper_metadata
SemanticScholarGetPaperMetadata(paper_id) ==
    CASE NativeId(paper_id) = <<"s1">> ->
            Paper(<<"semanticscholar", ":", "s1">>, "s2-1", DoiB, "semanticscholar",
                  upstream.ss_references, <<NoKey, <<"s2">>, <<"s3">>, <<"s4">>>>)
      [] NativeId(paper_id) = <<"s2">> ->
            Paper(<<"semanticscholar", ":", "s2">>, "s2-2", None, "semanticscholar",
                  upstream.ss_references, <<<<"s1">>>>)
      [] NativeId(paper_id) = <<"s4">> ->
            Paper(<<"semanticscholar", ":", "s4">>, "s2-4", None, "semanticscholar",
                  upstream.ss_references, <<>>)
      [] OTHER -> Raised("ValueError")

\* GoogleScholarConnector.get_paper_metadata
GoogleScholarGetPaperMetadata(paper_id) ==
    IF NativeId(paper_id) = <<"g1">>
    THEN Paper(<<"googlescholar", ":">> \o NativeId(paper_id), "gs-1", None, "googlescholar", FALSE, <<>>)
    ELSE Raised("ValueError")

\* GoogleDriveConnector.get_paper_metadata
DriveGetPaperMetadata(paper_id) == Raised("NotImplementedError")

\* connector.get_paper_metadata(paper_id) for the connector registered as conn_source
get_paper_metadata(conn_source, paper_id) ==
    CASE conn_source = "arxiv" -> ArXivGetPaperMetadata(paper_id)
      [] conn_source = "pubmed" -> PubMedGetPaperMetadata(paper_id)
      [] conn_source = "semanticscholar" -> SemanticScholarGetPaperMetadata(paper_id)
      [] conn_source = "googlescholar" -> GoogleScholarGetPaperMetadata(paper_id)
      [] OTHER -> DriveGetPaperMetadata(paper_id)

(***************************************************************************)
(* CitationGraphBuilder: the private lookups.  A dict is a sequence of     *)
(* entries [id, paper] in insertion order, with pairwise different ids.    *)
(***************************************************************************)
DictKeys(d) == {d[i].id : i \in 1..Len(d)}

\* d[id] = paper
DictSet(d, id, paper) ==
    IF id \in DictKeys(d)
    THEN [i \in 1..Len(d) |-> IF d[i].id = id THEN [id |-> id, paper |-> paper] ELSE d[i]]
    ELSE Append(d, [id |-> id, paper |-> paper])

IsConnector(name) == \E i \in 1..Len(connectors) : connectors[i] = name

\* the probing loop of _get_paper_metadata: first connector, in registration order, whose
\* parse_paper_id neither raises nor returns its input; 0 when none does
\* line 135 within the try of line 133: the connector recognised the id format
Recognized(normalized_id, paper_id) ==
    normalized_id # NotImplementedError /\ normalized_id # paper_id

\* the probing loop without the break of line 138: the last claiming connector wins
FirstOfLast(claiming) ==
    IF claiming = {} THEN 0 ELSE CHOOSE i \in claiming : \A j \in claiming : i >= j

\* the break of line 138: the first of the claiming connectors, 0 when there is none
FirstOf(claiming) ==
    IF claiming = {} THEN 0 ELSE CHOOSE i \in claiming : \A j \in claiming : i <= j

FirstClaiming(paper_id) ==
    FirstOf({i \in 1..Len(connectors) : Recognized(parse_paper_id(connectors[i], paper_id), paper_id)})

\* lines 136-137 and 142: the connector found by probing ("" for None) and the id handed on
Probed(first, paper_id) ==
    IF first # 0
    THEN [connector |-> connectors[first], paper_id |-> parse_paper_id(connectors[first], paper_id)]
    ELSE [connector |-> "", paper_id |-> paper_id]

\* the resolver without the direct selection of line 128
PrefixRegisteredNever(paper_id) == FALSE

\* line 128: the id's prefix names a registered connector
PrefixRegistered(paper_id) ==
    HasColon(paper_id) /\ Len(BeforeColon(paper_id)) = 1 /\ IsConnector(BeforeColon(paper_id)[1])

\* connector selection of _get_paper_metadata: the connector's name ("" for None) and the id
\* handed on
SelectConnector(paper_id) ==
    IF PrefixRegistered(paper_id)
    THEN [connector |-> BeforeColon(paper_id)[1], paper_id |-> paper_id]
    ELSE The({Probed(first, paper_id) : first \in {FirstClaiming(paper_id)}})

\* a work of the bibliographic database converted, when there is one
WorkToPaper(crossref_data) ==
    IF crossref_data.found THEN _crossref_to_paper(crossref_data) ELSE NoPaper

\* a resolver without the fallback
CrossrefFallbackNone(paper_id) == NoPaper

\* the Crossref fallback of _get_paper_metadata
CrossrefFallback(paper_id) ==
    IF StartsWith(paper_id, <<"doi", ":">>)
    THEN WorkToPaper(WorksDoi(Remove(paper_id, <<"doi", ":">>)))
    ELSE NoPaper

\* lines 162-164: an exception of the connector call becomes None
ExceptToNone(paper) ==
    IF paper.kind = "raise" /\ ExceptException(paper.exc) THEN NoPaper ELSE paper

\* the connector call of _get_paper_metadata, with its except clause
ConnectorMetadata(conn_source, paper_id) == ExceptToNone(get_paper_metadata(conn_source, paper_id))

\* lines 142-164: the lookup through the selected connector, or the fallback
SelectedMetadata(selected) ==
    IF selected.connector = "" THEN CrossrefFallback(selected.paper_id)
    ELSE ConnectorMetadata(selected.connector, selected.paper_id)

\* CitationGraphBuilder._get_paper_metadata: a Paper, NoPaper for None, Raised for an exception
_get_paper_metadata(paper_id) ==
    IF ~IsStr(paper_id) THEN Raised("TypeError")
    ELSE The({SelectedMetadata(selected) : selected \in {SelectConnector(paper_id)}})

\* a lookup that takes a DOI for granted where the Paper carries none
PaperDoiAssumed(paper) == IF paper.kind = "paper" /\ Truthy(paper.doi) THEN paper.doi ELSE DoiA

\* lines 186-187 and 259-260: the DOI the metadata carries, None without one
PaperDoi(paper) == IF paper.kind = "paper" /\ Truthy(paper.doi) THEN paper.doi ELSE None

\* the DOI both expansions work from: the id's own, or the one its metadata carries; None if neither
ExpansionDoi(paper_id) ==
    IF StartsWith(paper_id, <<"doi", ":">>) THEN Remove(paper_id, <<"doi", ":">>)
    ELSE The({PaperDoi(paper) : paper \in {_get_paper_metadata(paper_id)}})

\* papers[id] = paper if paper is a Paper
DictSetPaper(papers, id, paper) ==
    IF paper.kind = "paper" THEN DictSet(papers, id, paper) ELSE papers

\* lines 204-205: a citing paper goes in under its own paper_id
DictSetCiting(papers, paper) == DictSetPaper(papers, paper.paper_id, paper)

\* the loop of _get_citing_papers over the citing works
RECURSIVE CitingDict(_, _)
CitingDict(works, papers) ==
    IF works = <<>> THEN papers
    ELSE CitingDict(Tail(works), DictSetCiting(papers, _crossref_to_paper(Head(works))))

\* lines 189-210: the citing lookup for a DOI
CitingOfDoi(doi, max_papers) ==
    IF ~Truthy(doi) THEN <<>>
    ELSE IF WorksFilterRaises(doi) THEN <<>>
    ELSE CitingDict(WorksFilterReferences(doi, max_papers), <<>>)

\* CitationGraphBuilder._get_citing_papers
_get_citing_papers(paper_id, max_papers) ==
    The({CitingOfDoi(doi, max_papers) : doi \in {ExpansionDoi(paper_id)}})

\* lines 239-246: the paper of one Semantic Scholar reference
SemanticScholarRefPaper(ref) ==
    IF ref = NoKey THEN NoPaper
    ELSE ExceptToNone(get_paper_metadata("semanticscholar", <<"semanticscholar", ":">> \o ref))

\* the loop of _get_cited_papers over a Semantic Scholar reference list
RECURSIVE SemanticScholarRefs(_, _)
SemanticScholarRefs(references, papers) ==
    IF references = <<>> THEN papers
    ELSE SemanticScholarRefs(Tail(references),
                             DictSetPaper(papers, <<"semanticscholar", ":">> \o Head(references),
                                          SemanticScholarRefPaper(Head(references))))

\* lines 274-286: the paper of one Crossref reference
CrossrefRefPaper(ref) == IF ref = NoKey THEN NoPaper ELSE WorkToPaper(WorksDoi(ref))

\* the loop of _get_cited_papers over a Crossref reference list
RECURSIVE CrossrefRefs(_, _)
CrossrefRefs(references, papers) ==
    IF references = <<>> THEN papers
    ELSE CrossrefRefs(Tail(references),
                      DictSetPaper(papers, <<"doi", ":">> \o Head(references),
                                   CrossrefRefPaper(Head(references))))

\* line 234: the paper carries a reference list
WithReferences(paper) == IF paper.kind = "paper" /\ paper.has_references THEN paper ELSE NoPaper

\* the paper the Semantic Scholar branch of _get_cited_papers reads its references from;
\* NoPaper when the branch is not taken or falls through to the DOI branch
SemanticScholarSource(paper_id) ==
    IF StartsWith(paper_id, <<"semanticscholar", ":">>) /\ IsConnector("semanticscholar")
    THEN WithReferences(get_paper_metadata("semanticscholar", paper_id))
    ELSE NoPaper

\* lines 265-267: the work of the DOI, when there is a DOI
WorkOfDoi(doi) == IF Truthy(doi) THEN WorksDoi(doi) ELSE NoWork

\* lines 269-288: the papers of the work's reference list
CitedOfWork(work, max_papers) ==
    IF work.found /\ work.reference # <<>>
    THEN CrossrefRefs(Take(work.reference, max_papers), <<>>)
    ELSE <<>>

\* the DOI branch of _get_cited_papers
CrossrefCited(paper_id, max_papers) ==
    The({CitedOfWork(work, max_papers) : work \in {WorkOfDoi(doi) : doi \in {ExpansionDoi(paper_id)}}})

\* lines 234-292: from the Semantic Scholar reference list if there is one, else through the DOI
CitedFrom(paper, paper_id, max_papers) ==
    IF paper.kind = "paper"
    THEN SemanticScholarRefs(Take(paper.references, max_papers), <<>>)
    ELSE CrossrefCited(paper_id, max_papers)

\* CitationGraphBuilder._get_cited_papers
_get_cited_papers(paper_id, max_papers) ==
    CitedFrom(SemanticScholarSource(paper_id), paper_id, max_papers)

(***************************************************************************)
(* State of one builder and of the build_citation_graph call it runs.      *)
(***************************************************************************)
VARIABLES pc,                 \* "idle", "for" (line 52), "batch" (line 61), "done"
          seeds,              \* set(paper_ids) of the call
          depth, max_citations, direction,
          papers_dict, citation_links, papers_to_process, processed_papers,
          current_depth,
          current_batch,      \* the ids of the batch the inner loop has not reached yet
          result,             \* the returned CitationGraph
          expansions,         \* history: the expansions made, [node, direction, ids]
          prev,               \* history: arguments and node ids of the call before this one
          fetched,            \* history: the ids line 66 was issued for, once and again, and
                              \* the ids line 63 skipped
          cancel_delivered,   \* history: a cancellation reached the call
          parsed,             \* a parse_paper_id call made on a connector directly
          resolved,           \* a _get_paper_metadata call made on the builder directly
          other               \* the local variables of a second call in flight, suspended

vars == <<connectors, upstream, pc, seeds, depth, max_citations, direction, papers_dict,
          citation_links, papers_to_process, processed_papers, current_depth, current_batch,
          result, expansions, prev, fetched, cancel_delivered, parsed, resolved, other>>

\* the registry DeepResearchOrchestrator.initialize builds, and smaller ones
OrchestratorConnectors == <<"arxiv", "pubmed", "semanticscholar", "googlescholar", "drive">>
NoConnectors == <<>>
DrivePubMedConnectors == <<"drive", "pubmed">>
SemanticScholarConnectors == <<"semanticscholar">>

\* the works that reference doi, in upstream order, for the reference lists refs
CitingOf(refs, doi) ==
    LET order == <<DoiA, DoiB, DoiC, DoiD>>
        cites(y) == \E i \in 1..Len(refs[y]) : Lower(refs[y][i]) = doi
    IN SelectSeq(order, cites)

Upstream(ra, rb, rc, down, ssr) ==
    LET refs == [d \in Dois |-> IF d = DoiA THEN ra ELSE IF d = DoiB THEN rb
                                ELSE IF d = DoiC THEN rc ELSE <<>>]
    IN [reference |-> refs, citing |-> [d \in Dois |-> CitingOf(refs, d)],
        down |-> down, ss_references |-> ssr]

RefsOfA == {<<>>, <<DoiC>>, <<DoiB, DoiC>>, <<DoiCUpper, DoiC>>, <<NoKey, DoiB, DoiD, DoiC>>}
RefsOfB == {<<>>, <<DoiC>>, <<DoiA>>}
RefsOfC == {<<>>, <<DoiA>>}
Downs == {{}, {DoiC}}

Deployments ==
    {[connectors |-> NoConnectors, upstream |-> Upstream(ra, rb, rc, down, FALSE)] :
        ra \in RefsOfA, rb \in RefsOfB, rc \in RefsOfC, down \in Downs}
    \cup {[connectors |-> c, upstream |-> Upstream(<<NoKey, DoiB, DoiD, DoiC>>, rb, <<>>, down, FALSE)] :
        c \in {OrchestratorConnectors, DrivePubMedConnectors}, rb \in {<<DoiC>>},
        down \in {{}, {DoiB}}}
    \cup {[connectors |-> SemanticScholarConnectors,
           upstream |-> Upstream(<<DoiB, DoiC>>, <<DoiA>>, <<>>, down, ssr)] :
        down \in {{}, {DoiB}}, ssr \in BOOLEAN}

SeedIds == {<<"doi", ":", "10.", "a">>, <<"doi", ":", "10.", "b">>, <<"7">>, <<"arxiv", ":", "7">>,
            <<"semanticscholar", ":", "s1">>, <<"<int>", "7">>, <<"10.", "a">>}

SeedLists == UNION {[1..n -> SeedIds] : n \in 0..MaxSeeds}

Directions == {"both", "citing", "cited", "forward"}

NoGraph == [nodes |-> <<>>, links |-> <<>>, returned |-> FALSE]
NoPrev == [valid |-> FALSE, seeds |-> {}, depth |-> 0, max_citations |-> 0, direction |-> "",
           node_ids |-> {}]

\* depth is an int: the levels the model follows, and a negative one
Depths == (0 - 1)..MaxDepth

NoFetches == [once |-> {}, again |-> {}, skipped |-> {}]
NoParse == [stage |-> "none", conn_source |-> "", external_id |-> <<>>, once |-> <<>>, twice |-> <<>>]

NoLookup == [stage |-> "none", paper_id |-> <<>>, selected |-> [connector |-> "", paper_id |-> <<>>],
             paper |-> NoPaper]

\* the local variables of a call that was not made
NoCall == [pc |-> "idle", seeds |-> {}, depth |-> 0, max_citations |-> 0, direction |-> "",
           papers_dict |-> <<>>, citation_links |-> <<>>, papers_to_process |-> {},
           processed_papers |-> {}, current_depth |-> 0, current_batch |-> {},
           result |-> NoGraph, expansions |-> {}, fetched |-> NoFetches,
           cancel_delivered |-> FALSE]

\* the state after construction, for a builder deployed as one of deployments, a direct
\* parse_paper_id call drawn from calls and a direct _get_paper_metadata call drawn from lookups
Constructed(deployments, calls, lookups) ==
    /\ \E d \in deployments : connectors = d.connectors /\ upstream = d.upstream
    /\ pc = "idle"
    /\ seeds = {} /\ depth = 0 /\ max_citations = 0 /\ direction = ""
    /\ papers_dict = <<>> /\ citation_links = <<>>
    /\ papers_to_process = {} /\ processed_papers = {}
    /\ current_depth = 0 /\ current_batch = {}
    /\ result = NoGraph /\ expansions = {} /\ prev = NoPrev
    /\ fetched = NoFetches /\ cancel_delivered = FALSE /\ parsed \in calls
    /\ resolved \in lookups
    /\ other = NoCall

Init == Constructed(Deployments, {NoParse}, {NoLookup})

\* lines 43-49: the locals of a new call
Enter(ids, d, m, dir) ==
    /\ seeds' = ids /\ depth' = d /\ max_citations' = m /\ direction' = dir
    /\ papers_dict' = <<>> /\ citation_links' = <<>>
    /\ papers_to_process' = ids /\ processed_papers' = {}
    /\ current_depth' = 0 /\ current_batch' = {}
    /\ result' = NoGraph /\ expansions' = {}
    /\ fetched' = NoFetches /\ cancel_delivered' = FALSE
    /\ pc' = "for"

\* build_citation_graph(paper_ids, depth, max_citations, direction) is called
Build ==
    /\ pc = "idle"
    /\ \E paper_ids \in SeedLists, d \in Depths, m \in 1..MaxCitations, dir \in Directions :
          Enter(Range(paper_ids), d, m, dir)
    /\ UNCHANGED <<connectors, upstream, prev, parsed, resolved, other>>

\* the outer loop also starts the collected papers afresh at every level
NextLevelFresh ==
    /\ pc = "for" /\ current_depth <= depth /\ papers_to_process # {}
    /\ current_batch' = papers_to_process
    /\ papers_to_process' = {}
    /\ papers_dict' = <<>>
    /\ pc' = "batch"
    /\ UNCHANGED <<connectors, upstream, seeds, depth, max_citations, direction,
                   citation_links, processed_papers, current_depth, result, expansions, prev,
                   fetched, cancel_delivered, parsed, resolved, other>>

\* the outer loop without the bound of range(depth + 1)
NextLevelUnbounded ==
    /\ pc = "for" /\ papers_to_process # {}
    /\ current_batch' = papers_to_process
    /\ papers_to_process' = {}
    /\ pc' = "batch"
    /\ UNCHANGED <<connectors, upstream, seeds, depth, max_citations, direction, papers_dict,
                   citation_links, processed_papers, current_depth, result, expansions, prev,
                   fetched, cancel_delivered, parsed, resolved, other>>

\* lines 52-58: the outer loop takes the frontier as the batch of the next level
NextLevel ==
    /\ pc = "for" /\ current_depth <= depth /\ papers_to_process # {}
    /\ current_batch' = papers_to_process
    /\ papers_to_process' = {}
    /\ pc' = "batch"
    /\ UNCHANGED <<connectors, upstream, seeds, depth, max_citations, direction, papers_dict,
                   citation_links, processed_papers, current_depth, result, expansions, prev,
                   fetched, cancel_delivered, parsed, resolved, other>>

\* the inner loop gives the batch up at an id whose fetch fails
RemainingAbandoned(paper_id) ==
    IF _get_paper_metadata(paper_id).kind = "paper" THEN current_batch \ {paper_id} ELSE {}

\* lines 61-63 and 101-103: the ids the inner loop still has to reach after paper_id
Remaining(paper_id) == current_batch \ {paper_id}

\* the inner loop moves on; after the last id of the batch the outer loop counts one level
AdvanceTo(rest) ==
    /\ current_batch' = rest
    /\ IF rest = {}
       THEN pc' = "for" /\ current_depth' = current_depth + 1
       ELSE pc' = "batch" /\ current_depth' = current_depth

\* the inner loop leaves paper_id behind
Advance(paper_id) == AdvanceTo(Remaining(paper_id))

\* the test of line 62 left out
AlreadyProcessedNever(paper_id) == FALSE

\* line 62: the id was processed before
AlreadyProcessed(paper_id) == paper_id \in processed_papers

\* lines 62-63: an id that was processed already is skipped
SkipProcessed ==
    /\ pc = "batch"
    /\ \E paper_id \in current_batch :
          /\ AlreadyProcessed(paper_id)
          /\ Advance(paper_id)
          /\ fetched' = [fetched EXCEPT !.skipped = @ \cup {paper_id}]
    /\ UNCHANGED <<connectors, upstream, seeds, depth, max_citations, direction, papers_dict,
                   citation_links, papers_to_process, processed_papers, result, expansions, prev,
                   cancel_delivered, parsed, resolved, other>>

\* the level test of line 72 off by one
ShouldExpandOffByOne == current_depth <= depth

\* line 72: more expansion rounds remain
ShouldExpand == current_depth < depth

\* line 74 with "citing" as the default of every direction but "cited"
WantsCitingByDefault == direction # "cited"

\* lines 74 and 87
WantsCiting == direction \in {"both", "citing"}
WantsCited == direction \in {"both", "cited"}

\* lines 77-78 and 90-91 over a whole neighbour dict: neighbours not yet in papers_dict are added
RECURSIVE AddMissing(_, _)
AddMissing(dict, found) ==
    IF found = <<>> THEN dict
    ELSE LET entry == Head(found)
         IN AddMissing(IF entry.id \in DictKeys(dict) THEN dict
                       ELSE Append(dict, entry),
                       Tail(found))

\* lines 79-80 and 92-93: the neighbours that go to the next frontier
ToProcess(found) == {found[i].id : i \in 1..Len(found)} \ processed_papers

\* the citing links with source and target swapped
CitingLinksReversed(found, paper_id) == [i \in 1..Len(found) |-> CitationLink(paper_id, found[i].id)]

\* lines 82-85: citing paper -> current paper
CitingLinks(found, paper_id) == [i \in 1..Len(found) |-> CitationLink(found[i].id, paper_id)]

\* the cited links with source and target swapped
CitedLinksReversed(found, paper_id) == [i \in 1..Len(found) |-> CitationLink(found[i].id, paper_id)]

\* lines 95-98: current paper -> cited paper
CitedLinks(found, paper_id) == [i \in 1..Len(found) |-> CitationLink(paper_id, found[i].id)]

Ids(found) == [i \in 1..Len(found) |-> found[i].id]

\* the handler of the inner loop as a bare except, which absorbs BaseException too
LoopCatchesBase(exc) == TRUE

\* the handler of the inner loop as narrow as the one of line 139
LoopCatchesNarrow(exc) == exc \in {"ValueError", "NotImplementedError"}

\* lines 101-103: the exception classes the handler of the inner loop absorbs
LoopCatches(exc) == ExceptException(exc)

\* lines 68-100: the fetch succeeded
Incorporate(paper_id, paper, citing, cited) ==
    /\ papers_dict' = AddMissing(AddMissing(DictSet(papers_dict, paper_id, paper), citing), cited)
    /\ papers_to_process' = papers_to_process \cup ToProcess(citing) \cup ToProcess(cited)
    /\ citation_links' = citation_links \o CitingLinks(citing, paper_id)
                            \o CitedLinks(cited, paper_id)
    /\ processed_papers' = processed_papers \cup {paper_id}
    /\ expansions' = expansions
          \cup (IF ShouldExpand /\ WantsCiting
                THEN {[node |-> paper_id, direction |-> "citing", ids |-> Ids(citing)]}
                ELSE {})
          \cup (IF ShouldExpand /\ WantsCited
                THEN {[node |-> paper_id, direction |-> "cited", ids |-> Ids(cited)]}
                ELSE {})

\* lines 72-76: the citing lookup, made only while expansion rounds remain
Citing(paper_id) ==
    IF ShouldExpand /\ WantsCiting THEN _get_citing_papers(paper_id, max_citations) ELSE <<>>

\* lines 72 and 87-89: the cited lookup, made only while expansion rounds remain
Cited(paper_id) ==
    IF ShouldExpand /\ WantsCited THEN _get_cited_papers(paper_id, max_citations) ELSE <<>>

\* lines 66-103: what the loop body does with the outcome of the fetch
Fetched(paper_id, paper) ==
    CASE paper.kind = "raise" /\ LoopCatches(paper.exc) ->
            /\ Advance(paper_id)
            /\ processed_papers' = processed_papers \cup {paper_id}
            /\ UNCHANGED <<papers_dict, citation_links, papers_to_process, expansions>>
      [] paper.kind = "raise" /\ ~LoopCatches(paper.exc) ->
            /\ pc' = "raised"
            /\ UNCHANGED <<papers_dict, citation_links, papers_to_process,
                           processed_papers, expansions, current_batch, current_depth>>
      [] paper.kind = "none" ->
            /\ Advance(paper_id)
            /\ UNCHANGED <<papers_dict, citation_links, papers_to_process,
                           processed_papers, expansions>>
      [] OTHER ->
            /\ Advance(paper_id)
            /\ \E citing \in {Citing(paper_id)} : \E cited \in {Cited(paper_id)} :
                  Incorporate(paper_id, paper, citing, cited)

\* line 66 is issued for paper_id
Fetch(paper_id) ==
    [fetched EXCEPT !.once = @ \cup {paper_id},
                    !.again = IF paper_id \in fetched.once THEN @ \cup {paper_id} ELSE @]

\* lines 65-103: the body of the inner loop for one id of the batch
ProcessPaper ==
    /\ pc = "batch"
    /\ \E paper_id \in current_batch :
          /\ ~AlreadyProcessed(paper_id)
          /\ \E paper \in {_get_paper_metadata(paper_id)} : Fetched(paper_id, paper)
          /\ fetched' = Fetch(paper_id)
    /\ UNCHANGED <<connectors, upstream, seeds, depth, max_citations, direction, result, prev,
                   cancel_delivered, parsed, resolved, other>>

\* the task running the call is cancelled while the lookup for paper_id is pending: the await
\* (line 66, 76 or 89) raises CancelledError inside the try of line 65
Cancel ==
    /\ pc = "batch"
    /\ \E paper_id \in current_batch :
          /\ ~AlreadyProcessed(paper_id)
          /\ \E paper \in {Raised("CancelledError")} : Fetched(paper_id, paper)
          /\ fetched' = Fetch(paper_id)
    /\ cancel_delivered' = TRUE
    /\ UNCHANGED <<connectors, upstream, seeds, depth, max_citations, direction, result, prev,
                   parsed, resolved, other>>

\* lines 106-109: the CitationGraph built from the collected data
Graph == [nodes |-> [i \in 1..Len(papers_dict) |-> papers_dict[i].paper],
          links |-> citation_links, returned |-> TRUE]

\* lines 53-54 and 105-109: the loop ends and the graph is returned
Return ==
    /\ pc = "for" /\ (current_depth > depth \/ papers_to_process = {})
    /\ result' = Graph
    /\ pc' = "done"
    /\ UNCHANGED <<connectors, upstream, seeds, depth, max_citations, direction, papers_dict,
                   citation_links, papers_to_process, processed_papers, current_depth,
                   current_batch, expansions, prev, fetched, cancel_delivered, parsed, resolved, other>>

Next == Build \/ NextLevel \/ SkipProcessed \/ ProcessPaper \/ Cancel \/ Return

Spec == Init /\ [][Next]_vars

\* the node ids of a graph
NodeIds(graph) == {graph.nodes[i].paper_id : i \in 1..Len(graph.nodes)}

\* the caller builds again from the same seeds, one level deeper
BuildDeeper ==
    /\ pc = "done" /\ depth < MaxDepth
    /\ prev' = [valid |-> TRUE, seeds |-> seeds, depth |-> depth, max_citations |-> max_citations,
                direction |-> direction, node_ids |-> NodeIds(result)]
    /\ Enter(seeds, depth + 1, max_citations, direction)
    /\ UNCHANGED <<connectors, upstream, parsed, resolved, other>>

NextDepth == Next \/ BuildDeeper

SpecDepth == Init /\ [][NextDepth]_vars

\* lines 52-103: the steps of the two loops; the event loop runs the coroutine on while the
\* upstream answers
Loop == NextLevel \/ SkipProcessed \/ ProcessPaper \/ Return

\* the deployments whose citation relation has a cycle (a cites c, c cites a)
CyclicDeployments ==
    {d \in Deployments : d.upstream.reference[DoiC] = <<DoiA>> /\ d.upstream.down = {}
                             /\ DoiC \in Range(d.upstream.reference[DoiA])}

InitLive == Constructed(CyclicDeployments, {NoParse}, {NoLookup})

SpecLive == InitLive /\ [][Next]_vars /\ WF_vars(Loop)

\* the connectors that name papers by id
PaperConnectors == {"arxiv", "pubmed", "semanticscholar", "googlescholar"}

MaxIdLen == 3

IdTokens == {"arxiv", "pubmed", "semanticscholar", "googlescholar", "doi", ":", "10.", "a", "7"}

\* the URL forms the parsers name, and one arXiv URL without an abs part
ParseUrls ==
    {<<"https:", "/", "/", "arxiv.org", "/", "abs", "/", "7">>,
     <<"https:", "/", "/", "arxiv.org", "/", "pdf", "/", "7">>,
     <<"https:", "/", "/", "pubmed.ncbi.nlm.nih.gov", "/", "7", "/">>,
     <<"https:", "/", "/", "semanticscholar.org", "/", "paper", "/", "s1">>,
     <<"https:", "/", "/", "scholar.google.com", "/", "scholar?", "cluster=", "g1", "&", "hl=en">>}

ParseInputs == ParseUrls \cup UNION {[1..n -> IdTokens] : n \in 0..MaxIdLen}

ParseCalls ==
    {[stage |-> "called", conn_source |-> c, external_id |-> x, once |-> <<>>, twice |-> <<>>] :
        c \in PaperConnectors, x \in ParseInputs}

\* conn.parse_paper_id(external_id) returns
ParseOnce ==
    /\ parsed.stage = "called"
    /\ parsed' = [parsed EXCEPT !.stage = "once",
                                !.once = parse_paper_id(parsed.conn_source, parsed.external_id)]
    /\ UNCHANGED <<connectors, upstream, pc, seeds, depth, max_citations, direction, papers_dict,
                   citation_links, papers_to_process, processed_papers, current_depth,
                   current_batch, result, expansions, prev, fetched, cancel_delivered, resolved, other>>

\* the same connector parses the id it returned
ParseTwice ==
    /\ parsed.stage = "once"
    /\ parsed' = [parsed EXCEPT !.stage = "twice",
                                !.twice = parse_paper_id(parsed.conn_source, parsed.once)]
    /\ UNCHANGED <<connectors, upstream, pc, seeds, depth, max_citations, direction, papers_dict,
                   citation_links, papers_to_process, processed_papers, current_depth,
                   current_batch, result, expansions, prev, fetched, cancel_delivered, resolved, other>>

NextParse == ParseOnce \/ ParseTwice

InitParse ==
    Constructed({d \in Deployments : d.connectors = OrchestratorConnectors}, ParseCalls, {NoLookup})

SpecParse == InitParse /\ [][NextParse]_vars

\* lines 44-49: the local variables of a call just entered
Entered(ids, d, m, dir) ==
    [NoCall EXCEPT !.pc = "for", !.seeds = ids, !.depth = d, !.max_citations = m,
                   !.direction = dir, !.papers_to_process = ids]

\* two callers call build_citation_graph on the same builder with the same arguments; the
\* second call is suspended while the first runs
BuildTwo ==
    /\ pc = "idle" /\ other.pc = "idle"
    /\ \E paper_ids \in SeedLists, d \in Depths, m \in 1..MaxCitations, dir \in Directions :
          /\ Enter(Range(paper_ids), d, m, dir)
          /\ other' = Entered(Range(paper_ids), d, m, dir)
    /\ UNCHANGED <<connectors, upstream, prev, parsed, resolved>>

\* the local variables of the running call
Locals ==
    [pc |-> pc, seeds |-> seeds, depth |-> depth, max_citations |-> max_citations,
     direction |-> direction, papers_dict |-> papers_dict, citation_links |-> citation_links,
     papers_to_process |-> papers_to_process, processed_papers |-> processed_papers,
     current_depth |-> current_depth, current_batch |-> current_batch, result |-> result,
     expansions |-> expansions, fetched |-> fetched, cancel_delivered |-> cancel_delivered]

\* a builder that keeps the visited set on self: the task switch leaves it in place
SwitchSharedVisited ==
    /\ pc # "idle" /\ other.pc \in {"for", "batch"}
    /\ other' = Locals
    /\ pc' = other.pc /\ seeds' = other.seeds /\ depth' = other.depth
    /\ max_citations' = other.max_citations /\ direction' = other.direction
    /\ papers_dict' = other.papers_dict /\ citation_links' = other.citation_links
    /\ papers_to_process' = other.papers_to_process
    /\ processed_papers' = processed_papers
    /\ current_depth' = other.current_depth /\ current_batch' = other.current_batch
    /\ result' = other.result /\ expansions' = other.expansions /\ fetched' = other.fetched
    /\ cancel_delivered' = other.cancel_delivered
    /\ UNCHANGED <<connectors, upstream, prev, parsed, resolved>>

\* the event loop switches tasks at an await (lines 67, 75, 88) or when the running call has
\* ended: the other call goes on with its own local variables (lines 44-49, 52, 57)
Switch ==
    /\ pc # "idle" /\ other.pc \in {"for", "batch"}
    /\ other' = Locals
    /\ pc' = other.pc /\ seeds' = other.seeds /\ depth' = other.depth
    /\ max_citations' = other.max_citations /\ direction' = other.direction
    /\ papers_dict' = other.papers_dict /\ citation_links' = other.citation_links
    /\ papers_to_process' = other.papers_to_process
    /\ processed_papers' = other.processed_papers
    /\ current_depth' = other.current_depth /\ current_batch' = other.current_batch
    /\ result' = other.result /\ expansions' = other.expansions /\ fetched' = other.fetched
    /\ cancel_delivered' = other.cancel_delivered
    /\ UNCHANGED <<connectors, upstream, prev, parsed, resolved>>

NextTwo == BuildTwo \/ Switch \/ NextLevel \/ SkipProcessed \/ ProcessPaper \/ Return

\* the registries with connectors, and the builder without connectors on a citation cycle
InitTwo ==
    Constructed({d \in Deployments : d.connectors # NoConnectors} \cup CyclicDeployments,
                {NoParse}, {NoLookup})

SpecTwo == InitTwo /\ [][NextTwo]_vars

\* the ids a caller may hand to the resolver
LookupInputs ==
    {id \in ParseInputs \cup SeedIds \cup {<<"doi", ":">> \o doi : doi \in Dois} : IsStr(id)}

Lookups == {[NoLookup EXCEPT !.stage = "called", !.paper_id = x] : x \in LookupInputs}

\* self._get_paper_metadata(paper_id) returns: the connector selection it made on the way (lines
\* 121-140) and its result
Lookup ==
    /\ resolved.stage = "called"
    /\ resolved' = [resolved EXCEPT !.stage = "returned",
                                    !.selected = SelectConnector(resolved.paper_id),
                                    !.paper = _get_paper_metadata(resolved.paper_id)]
    /\ UNCHANGED <<connectors, upstream, pc, seeds, depth, max_citations, direction, papers_dict,
                   citation_links, papers_to_process, processed_papers, current_depth,
                   current_batch, result, expansions, prev, fetched, cancel_delivered, parsed, other>>

InitLookup == Constructed(Deployments, {NoParse}, Lookups)

SpecLookup == InitLookup /\ [][Lookup]_vars

(***************************************************************************)
(* Properties.                                                             *)
(***************************************************************************)
Done == pc = "done"

\* the seed fetches the call makes at level 0 succeed
Fetches(id) == _get_paper_metadata(id).kind = "paper"

HasNode(graph, paper) == \E i \in 1..Len(graph.nodes) : graph.nodes[i] = paper

\* C1: a call with depth = 0 and one seed whose metadata fetch succeeds returns exactly one
\* node, the seed's Paper, and no link, whatever direction and max_citations are, and it never
\* issues a citing or cited lookup.
C1_DepthZeroSingleSeed ==
    (pc # "idle" /\ depth = 0 /\ Cardinality(seeds) = 1 /\ \A id \in seeds : Fetches(id))
        => /\ expansions = {}
           /\ Done => /\ Len(result.nodes) = 1
                      /\ \A id \in seeds : result.nodes[1] = _get_paper_metadata(id)
                      /\ result.links = <<>>

C1_Witness ==
    /\ Done /\ depth = 0 /\ Cardinality(seeds) = 1 /\ \A id \in seeds : Fetches(id)
    /\ direction = "both" /\ Len(result.nodes) = 1

\* C2: failure isolation: the graph returned for a depth >= 0 holds the Paper of every seed
\* whose fetch succeeds, whichever other seeds fail to resolve or to fetch and in whatever order the batch
\* is processed.
C2_FailureIsolation ==
    (Done /\ depth >= 0) =>
        \A id \in seeds : Fetches(id) => HasNode(result, _get_paper_metadata(id))

C2_Witness ==
    /\ Done
    /\ \E id \in seeds : Fetches(id) /\ HasNode(result, _get_paper_metadata(id))
    /\ \E id \in seeds : _get_paper_metadata(id).kind = "none"

\* C3: no failure of a single id leaves build_citation_graph: unless the call is cancelled it
\* never ends with an exception, and where it ends it has returned a CitationGraph.
C3_NoFailurePropagates ==
    /\ pc = "raised" => cancel_delivered
    /\ Done => result.returned

C3_Witness ==
    /\ Done /\ result.returned /\ depth >= 0
    /\ \E id \in seeds : _get_paper_metadata(id).kind = "raise"
    /\ \E id \in seeds : _get_paper_metadata(id).kind = "none"

\* the number of entries of seq equal to x
Count(seq, x) == Cardinality({i \in 1..Len(seq) : seq[i] = x})

\* the Paper papers_dict holds under the id string id
Stored(id) == papers_dict[CHOOSE i \in 1..Len(papers_dict) : papers_dict[i].id = id].paper

\* the link an expansion appends for the neighbour id it found
LinkOf(e, id) == IF e.direction = "citing" THEN CitationLink(id, e.node) ELSE CitationLink(e.node, id)

\* the number of returned nodes that carry the paper_id of paper
NodesOf(paper) == Cardinality({i \in 1..Len(result.nodes) : result.nodes[i].paper_id = paper.paper_id})

\* C4: dedup: a paper discovered as a neighbour of two different expanded nodes appears exactly
\* once in the returned nodes, and the links list holds exactly one link per discovering node
\* to it.
C4_Dedup ==
    Done => \A e1 \in expansions : \A e2 \in expansions :
               e1.node # e2.node =>
                   \A id \in Range(e1.ids) \cap Range(e2.ids) :
                       /\ NodesOf(Stored(id)) = 1
                       /\ Count(result.links, LinkOf(e1, id)) = 1

\* C5: after any build no two nodes of the returned CitationGraph carry the same paper_id.
C5_UniquePaperIds ==
    Done => \A i \in 1..Len(result.nodes) : \A j \in 1..Len(result.nodes) :
               result.nodes[i].paper_id = result.nodes[j].paper_id => i = j

\* C6: the returned links list never contains two links with the same (source_id, target_id).
C6_NoDuplicateLinks ==
    Done => \A i \in 1..Len(result.links) : \A j \in 1..Len(result.links) :
               result.links[i] = result.links[j] => i = j

\* the list the upstream source holds for an expansion, before any limit: the works citing the
\* node's DOI, or the node's reference list
UpstreamList(e) ==
    IF e.direction = "citing"
    THEN IF Truthy(ExpansionDoi(e.node)) /\ Lower(ExpansionDoi(e.node)) \in Dois
            /\ ~WorksFilterRaises(ExpansionDoi(e.node))
         THEN upstream.citing[Lower(ExpansionDoi(e.node))]
         ELSE <<>>
    ELSE IF SemanticScholarSource(e.node).kind = "paper"
         THEN SemanticScholarSource(e.node).references
         ELSE WorkOfDoi(ExpansionDoi(e.node)).reference

\* the entry of the upstream list resolves to a Paper
Resolvable(e, entry) ==
    IF e.direction = "citing" THEN _crossref_to_paper(RawWork(entry)).kind = "paper"
    ELSE IF SemanticScholarSource(e.node).kind = "paper"
         THEN SemanticScholarRefPaper(entry).kind = "paper"
         ELSE CrossrefRefPaper(entry).kind = "paper"

\* the positions of the upstream list that hold resolvable entries, among the first n
ResolvableAmong(e, n) == {i \in 1..Len(UpstreamList(e)) : i <= n /\ Resolvable(e, UpstreamList(e)[i])}

\* C7: for every expanded node and each requested direction, the number of neighbours
\* incorporated from that node is at most max_citations.
C7_AtMostMaxCitations ==
    \A e \in expansions : Len(e.ids) <= max_citations

C7_Witness ==
    \E e \in expansions : /\ Len(e.ids) = max_citations
                          /\ Len(UpstreamList(e)) > max_citations

C9_MonotonicInDepth ==
    (Done /\ prev.valid) => prev.node_ids \subseteq NodeIds(result)

C9_Witness ==
    /\ Done /\ prev.valid /\ prev.depth + 1 = depth /\ prev.seeds = seeds
    /\ prev.node_ids # {}
    /\ prev.node_ids # NodeIds(result)

\* C10: with direction = "cited" every link has a source_id that the traversal fetched
\* successfully and expanded; no link is created whose source was never processed.
C10_CitedSourcesProcessed ==
    direction = "cited" =>
        \A i \in 1..Len(citation_links) :
            /\ citation_links[i].source_id \in processed_papers
            /\ Fetches(citation_links[i].source_id)
            /\ \E e \in expansions : e.node = citation_links[i].source_id /\ e.direction = "cited"

C10_Witness ==
    /\ Done /\ direction = "cited" /\ result.links # <<>>
    /\ result.links = citation_links

\* the call has ended: it returned, or an exception left it
Ended == pc \in {"done", "raised"}

\* C11: build_citation_graph terminates when the upstream answers: it processes at most depth+1
\* levels, never starts a level with an empty frontier, and every call ends, cycles in the
\* citation relation included.
C11_Terminates ==
    /\ [](pc # "idle" => current_depth <= (IF depth < 0 THEN 0 ELSE depth + 1))
    /\ [](pc = "batch" => current_depth <= depth)
    /\ [][pc' = "batch" /\ pc = "for" => papers_to_process # {}]_vars
    /\ (pc = "for") ~> Ended

C11_Witness ==
    /\ Done /\ depth = MaxDepth /\ current_depth = depth + 1
    /\ upstream.reference[DoiA] # <<>> /\ upstream.reference[DoiC] = <<DoiA>>
    /\ \E i \in 1..Len(result.links) : \E j \in 1..Len(result.links) :
          /\ result.links[i].source_id = result.links[j].target_id
          /\ result.links[i].target_id = result.links[j].source_id

\* C12: build_citation_graph raises an input error when called with depth < 0; no graph is
\* returned for a negative depth.
C12_NegativeDepthRaises == (pc # "idle" /\ depth < 0) => ~result.returned

\* C13: a build in which no seed resolves, and so no neighbour is discovered, surfaces an
\* error to the caller instead of returning an empty CitationGraph.
C13_NothingResolvedRaises ==
    (pc # "idle" /\ depth >= 0 /\ seeds # {} /\ \A id \in seeds : ~Fetches(id))
        => ~result.returned

\* C14: parse_paper_id is idempotent for every paper connector and every input, ids starting
\* with "10." and URL forms included.
C14_ParseIdempotent == parsed.stage = "twice" => parsed.twice = parsed.once

\* the prefix of the source, its host in a URL, or an id without a prefix at all
Recognizable(conn_source, external_id) ==
    \/ StartsWith(external_id, <<conn_source, ":">>)
    \/ \E host \in {<<"arxiv.org">>, <<"pubmed.ncbi.nlm.nih.gov">>, <<"semanticscholar.org">>,
                    <<"scholar.google.com">>} : Contains(external_id, host)
    \/ ~HasColon(external_id)

\* C15: for every paper connector, parse_paper_id returns its input unchanged when the input
\* matches none of the source's patterns (not its prefix, not a URL, not a bare native id).
C15_UnrecognizedUnchanged ==
    (parsed.stage \in {"once", "twice"} /\ ~Recognizable(parsed.conn_source, parsed.external_id))
        => parsed.once = parsed.external_id

\* a DOI-shaped id, and the DOI it names
DoiShaped(paper_id) == StartsWith(paper_id, <<"doi", ":">>) \/ StartsWith(paper_id, <<"10.">>)
DoiOf(paper_id) == Remove(paper_id, <<"doi", ":">>)

\* C16: a DOI-shaped id ("doi:" prefix, or starting with "10.") that no registered connector
\* claims is fetched through the DOI lookup: its fetch gives what the lookup of its DOI gives.
C16_DoiShapedFallsBack ==
    \A id \in fetched.once :
        (DoiShaped(id) /\ SelectConnector(id).connector = "")
            => _get_paper_metadata(id) = WorkToPaper(WorksDoi(DoiOf(id)))

\* the call's one seed is "doi:X", no registered connector claims it, and the DOI lookup
\* returns a work with title T
FallbackSeed(id) ==
    /\ seeds = {id} /\ StartsWith(id, <<"doi", ":">>)
    /\ SelectConnector(id).connector = ""
    /\ WorksDoi(DoiOf(id)).found /\ WorksDoi(DoiOf(id)).title = "T"

\* the work of the DOI has no reference and no citing work upstream
Isolated(doi) == upstream.reference[doi] = <<>> /\ upstream.citing[doi] = <<>>

OneFallbackNode(graph) ==
    /\ Len(graph.nodes) = 1
    /\ graph.nodes[1].title = "T" /\ graph.nodes[1].source = "crossref"

\* C17 as stated: for the seed list ["doi:X"] that no connector claims and a lookup returning
\* title T, the returned graph has exactly one node, of title T and source "crossref".
C17_FallbackSingleNode ==
    \A id \in seeds : (Done /\ FallbackSeed(id)) => OneFallbackNode(result)

\* C17 amended: the same, for a build that does not expand the seed (depth = 0) or, with
\* depth > 0, whose seed has no reference and no citing work upstream.
C17_FallbackSingleNodeNoNeighbour ==
    \A id \in seeds :
        (Done /\ FallbackSeed(id) /\ (depth = 0 \/ (depth > 0 /\ Isolated(DoiOf(id)))))
            => OneFallbackNode(result)

C17_Witness ==
    \E id \in seeds :
        /\ Done /\ FallbackSeed(id) /\ depth >= 1 /\ direction = "both" /\ Isolated(DoiOf(id))
        /\ OneFallbackNode(result)

\* the ids the links of graph name
Endpoints(graph) ==
    {graph.links[i].source_id : i \in 1..Len(graph.links)}
        \cup {graph.links[i].target_id : i \in 1..Len(graph.links)}

\* C18: in the returned graph a link endpoint that is the paper_id of no node occurs only for
\* an id whose metadata fetch failed during the build; an endpoint whose fetch succeeded has a
\* node carrying that id.
C18_EndpointsHaveNodes ==
    Done => \A id \in Endpoints(result) :
                id \notin NodeIds(result) => (id \in fetched.once /\ ~Fetches(id))

\* C19: a build cancelled while a lookup is pending ends with the cancellation error: the
\* handler of line 101 does not absorb it, the traversal does not go on, and no CitationGraph
\* is returned from the nodes and links collected so far.
C19_CancellationSurfaces == cancel_delivered => (pc = "raised" /\ result = NoGraph)

C19_Witness ==
    /\ cancel_delivered /\ pc = "raised"
    /\ papers_dict # <<>> /\ citation_links # <<>> /\ current_batch # {}

\* C20: when the metadata fetch of an id fails during a build, the id is added to the
\* visited set in that step and the loop issues no further fetch for it, even if it is
\* discovered again as a neighbour of a node processed later.
C20_FailedFetchVisited ==
    ~cancel_delivered =>
        \A id \in fetched.once :
            ~Fetches(id) => (id \in processed_papers /\ id \notin fetched.again)

\* C21: an id the loop has fetched successfully is processed at most once per build: it is
\* never fetched again, and where it comes up again in a later batch (a citation cycle, or a
\* neighbour found while it was still waiting in its own batch) it is skipped.
C21_ProcessedOnce ==
    /\ \A id \in fetched.again : ~Fetches(id)
    /\ \A id \in fetched.skipped : id \in processed_papers /\ id \in fetched.once

C21_Witness ==
    /\ Done
    /\ \E id \in fetched.skipped :
          /\ Fetches(id) /\ id \notin fetched.again
          /\ \E i \in 1..Len(result.links) : \E j \in 1..Len(result.links) :
                /\ result.links[i].source_id = id /\ result.links[j].target_id = id
                /\ result.links[i].target_id = result.links[j].source_id

\* C22: edge orientation: for a paper P found in the citing set of the processed node N the
\* link (source_id = P, target_id = N) is appended, for a paper P found in its cited set the
\* link (source_id = N, target_id = P), once per finding whether or not P was a node already,
\* and no other link is appended.
C22_EdgeOrientation ==
    LET found == UNION {{[node |-> e.node, direction |-> e.direction, id |-> e.ids[k]] :
                            k \in 1..Len(e.ids)} : e \in expansions}
        oriented(f) == IF f.direction = "citing"
                       THEN [source_id |-> f.id, target_id |-> f.node]
                       ELSE [source_id |-> f.node, target_id |-> f.id]
    IN /\ \A f \in found :
             Count(citation_links, oriented(f)) = Cardinality({g \in found : oriented(g) = oriented(f)})
       /\ \A i \in 1..Len(citation_links) : \E f \in found : citation_links[i] = oriented(f)

C22_Witness ==
    /\ Done /\ direction = "both" /\ result.links = citation_links
    /\ \E e1 \in expansions : \E e2 \in expansions :
          /\ e1.direction = "citing" /\ e2.direction = "cited"
          /\ \E k \in 1..Len(e1.ids) : e1.ids[k] \in seeds
          /\ \E k \in 1..Len(e2.ids) : e2.ids[k] \notin seeds

\* C23: an id prefix:rest whose prefix is the name of a registered connector is fetched
\* through that connector with the id as given, whatever the rest looks like: no probing
\* rewrites it and the DOI lookup does not answer for it.
C23_RegisteredPrefixSelected ==
    resolved.stage = "returned" =>
        \A i \in 1..Len(connectors) :
            StartsWith(resolved.paper_id, <<connectors[i], ":">>) =>
                /\ resolved.selected = [connector |-> connectors[i], paper_id |-> resolved.paper_id]
                /\ resolved.paper = ExceptToNone(get_paper_metadata(connectors[i], resolved.paper_id))

C23_Witness ==
    /\ resolved.stage = "returned" /\ connectors = OrchestratorConnectors
    /\ resolved.paper_id = <<"pubmed", ":", "10.">>
    /\ resolved.selected.connector = "pubmed"

\* C24: for an id without a registered prefix the connectors are probed in registration order
\* and the one selected is the first whose parse_paper_id returns a string different from the
\* input, with that string as the normalized id; connectors whose parse_paper_id raises are
\* skipped, and when none matches no connector is selected and the id is left as given.
C24_FirstMatchSelected ==
    LET id == resolved.paper_id
        differs(i) == parse_paper_id(connectors[i], id) \notin {id, NotImplementedError}
        matches == {i \in 1..Len(connectors) : differs(i)}
    IN (/\ resolved.stage = "returned"
        /\ \A i \in 1..Len(connectors) : ~StartsWith(id, <<connectors[i], ":">>))
            => /\ \A i \in matches :
                     (\A j \in matches : i <= j)
                         => resolved.selected = [connector |-> connectors[i],
                                                 paper_id |-> parse_paper_id(connectors[i], id)]
               /\ matches = {} => resolved.selected = [connector |-> "", paper_id |-> id]

\* the Drive connector, registered first, raised and was skipped
C24_Witness ==
    /\ resolved.stage = "returned"
    /\ connectors = DrivePubMedConnectors /\ resolved.paper_id = <<"7">>
    /\ resolved.selected = [connector |-> "pubmed", paper_id |-> <<"pubmed", ":", "7">>]

\* C25: with the orchestrator's registry an unprefixed all-digit id in PubMed form is resolved
\* to the PubMed connector and fetched as "pubmed:<id>".
C25_DigitsResolveToPubMed ==
    (/\ resolved.stage = "returned" /\ connectors = OrchestratorConnectors
     /\ IsDigit(resolved.paper_id))
        => resolved.selected = [connector |-> "pubmed",
                                paper_id |-> <<"pubmed", ":">> \o resolved.paper_id]

\* C26: expanding a successfully fetched node that has no native reference list and no DOI
\* yields empty citing and cited sets without error: the node stays in the graph and is
\* marked processed, nothing is found on its account, and the traversal is not ended by it.
C26_NoDoiNoExpansion ==
    \A e \in expansions :
        (/\ ~Truthy(_get_paper_metadata(e.node).doi)
         /\ ~_get_paper_metadata(e.node).has_references
         /\ ~StartsWith(e.node, <<"doi", ":">>))
            => /\ e.ids = <<>>
               /\ e.node \in DictKeys(papers_dict) /\ e.node \in processed_papers
               /\ pc = "raised" => cancel_delivered

C26_Witness ==
    /\ Done /\ direction = "both"
    /\ \E e1 \in expansions : \E e2 \in expansions :
          /\ Fetches(e1.node) /\ ~Truthy(_get_paper_metadata(e1.node).doi)
          /\ e1.ids = <<>> /\ HasNode(result, _get_paper_metadata(e1.node))
          /\ e2.ids # <<>>

\* C27: the Crossref-to-Paper conversion returns a Paper for every raw work that carries a DOI,
\* whichever optional fields are missing or empty: a "doi:" id resolved through the DOI lookup
\* gives a Paper whenever the lookup returns a work with a DOI.
C27_ConversionNeedsOnlyDoi ==
    (/\ resolved.stage = "returned" /\ resolved.selected.connector = ""
     /\ StartsWith(resolved.paper_id, <<"doi", ":">>)
     /\ WorksDoi(DoiOf(resolved.paper_id)).found
     /\ Truthy(WorksDoi(DoiOf(resolved.paper_id)).DOI))
        => resolved.paper.kind = "paper"

RECURSIVE Within(_, _, _)
Within(ids, links, k) ==
    IF k <= 0 THEN ids
    ELSE Within(ids \cup {links[i].source_id : i \in {j \in 1..Len(links) : links[j].target_id \in ids}}
                    \cup {links[i].target_id : i \in {j \in 1..Len(links) : links[j].source_id \in ids}},
                links, k - 1)

\* C29: depth bound on content: in every returned graph each node is a seed's Paper or carries
\* an id connected to a seed by a chain of at most depth links of the links list, link direction
\* ignored.
C29_NodesWithinDepth ==
    (Done /\ depth >= 0) =>
        \A i \in 1..Len(result.nodes) :
            \/ \E id \in seeds : result.nodes[i] = _get_paper_metadata(id)
            \/ result.nodes[i].paper_id \in Within(seeds, result.links, depth)

\* C30: for a direction other than "both", "citing" or "cited" the call expands nothing and
\* raises no error: for every depth it returns only successfully fetched seeds as nodes (all
\* of them for a depth >= 0) and an empty links list.
C30_UnknownDirectionNoExpansion ==
    (pc # "idle" /\ direction \notin {"both", "citing", "cited"})
        => /\ expansions = {} /\ citation_links = <<>>
           /\ pc = "raised" => cancel_delivered
           /\ Done => /\ result.links = <<>>
                      /\ \A i \in 1..Len(result.nodes) :
                            \E id \in seeds : result.nodes[i] = _get_paper_metadata(id)
                      /\ depth >= 0 =>
                            \A id \in seeds : Fetches(id) => HasNode(result, _get_paper_metadata(id))

C30_Witness ==
    /\ Done /\ direction = "forward" /\ depth = MaxDepth
    /\ seeds = {<<"doi", ":", "10.", "a">>} /\ Len(result.nodes) = 1
    /\ upstream.reference[DoiA] # <<>> /\ upstream.citing[DoiA] # <<>>

====
